---- MODULE Spec2Model ----
(***************************************************************************)
(* Video2Doc task orchestration.                                           *)
(*                                                                         *)
(* Two task stores live side by side in the backend:                       *)
(*   - the Celery engine (app/services/queue_service package):             *)
(*     TaskManager                                                         *)
(*     publishes messages to a Redis broker, one worker with a prefork     *)
(*     pool of 4 children consumes them, the Redis result backend holds    *)
(*     one state record per task id;                                       *)
(*   - the in-process QueueService (app/services/queue_service.py) driven  *)
(*     by FastAPI background tasks (app/routers/processing.py).            *)
(*                                                                         *)
(* A task's completion in the worker (result stored, chain successor       *)
(* published, message acknowledged) is one step of the model.  The service *)
(* call inside a handler body either returns or raises.                    *)
(***************************************************************************)
EXTENDS Integers, Sequences, FiniteSets, TLC

VARIABLES
    broker,      \* Redis lists: queue name -> sequence of messages, head first
    slot,        \* prefork pool: child -> the message it holds and where it is
    scheduled,   \* messages with an ETA held in the worker's timer, unacked
    backend,     \* Redis result backend: task id -> stored state record
    revoked,     \* the worker's in-memory set of revoked task ids
    control,     \* revoke broadcasts published but not yet read by the worker
    chordParts,  \* header members of the workflow's chord that have returned
    submitted,   \* history: ids for which a first message was published
    leased,      \* history: ids some pool child has been handed at least once
    execs,       \* history: id -> number of handler invocations
    raises,      \* history: id -> number of handler invocations that raised
    lost,        \* history: id -> number of deliveries cut by a lost child
    cancelAt,    \* history: <<id, phase of the task when cancel_task was called>>
    lateCancel,  \* history: ids whose revoke reached the worker while running
    cancels,     \* history: number of calls of TaskManager.cancel_task
    groupMeta,   \* Redis result backend: ids of the group results saved in it
    consuming,   \* the queues the worker consumes from
    queueCtl,    \* cancel_consumer/add_consumer broadcasts: sent, number read
    qsQueue,     \* the list QueueService's own Celery app publishes to
    paused,      \* history: queues paused and not resumed through TaskManager
    purges,      \* history: the calls of purge_queue, <<queue, count returned>>
    retried,     \* history: the calls of retry_task that sent, <<old id, new id>>
    pg,          \* a handler run in detail: its task data and the progress written
    clock,       \* the time in seconds, where a specification lets it pass
    notBefore,   \* task id -> the ETA of its latest retry message
    qsTasks,     \* QueueService.tasks: task id -> record, or NoRecord
    qsFiles,     \* storage_path: the file <task id>.json -> record, or NoRecord
    qsLast,      \* history: the last call of a QueueService method or answer of cancel_processing
    bg,          \* processing.process_video_task coroutines: id -> positions
    batch        \* image_recognition._process_batch_analysis: id -> position

vars == <<broker, slot, scheduled, backend, revoked, control, chordParts,
          submitted, leased, execs, raises, lost, cancelAt, lateCancel,
          cancels, groupMeta, consuming, queueCtl, qsQueue, paused, purges,
          retried,
          pg, clock, notBefore, qsTasks, qsFiles, qsLast, bg, batch>>

celeryVars == <<broker, slot, scheduled, backend, revoked, control, chordParts,
                submitted, leased, execs, raises, lost, cancelAt, lateCancel,
                cancels,
                groupMeta, consuming, queueCtl, qsQueue, paused, purges,
                retried, clock, notBefore, pg>>

timeVars == <<clock, notBefore>>

ctlVars == <<groupMeta, consuming, queueCtl, qsQueue, paused, purges,
          retried>>

qsVars == <<qsTasks, qsFiles, qsLast, bg, batch>>

(***************************************************************************)
(* Bounds                                                                  *)
(***************************************************************************)
NumTasks == 2        \* standalone tasks submitted through TaskManager.submit_*
MaxLost == 1         \* lost pool children per run
MaxCancel == 1       \* calls of TaskManager.cancel_task per run
NumQsTasks == 2      \* task ids known to QueueService
MaxBg == 1           \* process_video_task coroutines started per task id
MaxRetryCalls == 1   \* calls of TaskManager.retry_task that send a task
MaxPurge == 1        \* calls of TaskManager.purge_queue per run
MaxQueueCtl == 2     \* calls of pause_queue and resume_queue per run
MaxEnqueue == 1      \* messages published by QueueService.enqueue_task
MaxClock == 240      \* seconds a run lasts where time is modelled
MaxImages == 12      \* image paths in the task data of analyze_images_task
MaxFrames == 2       \* frame paths of a batch image analysis

(***************************************************************************)
(* Program constants                                                       *)
(***************************************************************************)
Concurrency == 4     \* --concurrency=4

PENDING == "pending"
STARTED == "started"
PROGRESS == "progress"
SUCCESS == "success"
FAILURE == "failure"
RETRY == "retry"
REVOKED == "revoked"

TaskStatus == {PENDING, STARTED, PROGRESS, SUCCESS, FAILURE, RETRY, REVOKED}

Terminal == {SUCCESS, FAILURE, REVOKED}

TaskPriority == {"low", "normal", "high", "critical"}

TaskTypes == {"video", "audio", "image", "summary", "export"}

\* TaskManager._get_priority_value
PriorityValue(p) ==
    CASE p = "low" -> 3
      [] p = "normal" -> 6
      [] p = "high" -> 9
      [] p = "critical" -> 10

\* task_routes and the queue= argument of TaskManager.submit_*
QueueOf(ty) ==
    CASE ty = "video" -> "video_processing"
      [] ty = "audio" -> "audio_transcription"
      [] ty = "image" -> "image_analysis"
      [] ty = "summary" -> "summary_generation"
      [] ty = "export" -> "document_export"
      [] OTHER -> "default"        \* task_default_queue

Queues == {QueueOf(ty) : ty \in TaskTypes} \cup {"default"}

\* task_annotations: max_retries per task
MaxRetries(ty) ==
    CASE ty = "video" -> 3
      [] ty = "audio" -> 3
      [] ty = "image" -> 2
      [] ty = "summary" -> 3
      [] ty = "export" -> 2

\* the payload keys a handler reads with task_data[...]: the handler of type
\* ty finds them exactly in a payload built from its own parameter model
ParamsOf(ty) ==
    CASE ty = "video" -> "VideoProcessingTask"
      [] ty = "audio" -> "AudioTranscriptionTask"
      [] ty = "image" -> "ImageAnalysisTask"
      [] ty = "summary" -> "SummaryGenerationTask"
      [] ty = "export" -> "DocumentExportTask"

\* the dict a handler returns
ResultOf(ty) ==
    CASE ty = "video" -> "video_result"
      [] ty = "audio" -> "audio_result"
      [] ty = "image" -> "image_result"
      [] ty = "summary" -> "summary_result"
      [] ty = "export" -> "export_result"

(***************************************************************************)
(* Task ids                                                                *)
(***************************************************************************)
TaskIds == {<<"task", i>> : i \in 1..NumTasks}    \* uuid4 of the router
ChainIds == {<<"chain", i>> : i \in 1..5}         \* create_video_processing_chain
FlowIds == {<<"flow", i>> : i \in 1..5}           \* submit_complete_video_analysis
GroupIds == {<<"group", i>> : i \in 1..2}         \* submit_parallel_analysis
RetryIds == {<<"retry", i>> : i \in 1..MaxRetryCalls}   \* uuid of send_task
\* video_task_id of submit_complete_video_analysis: f"video_{base_id}", put
\* into the video step's parameters and returned; no message is published
\* under it
FlowVideoTaskId == <<"video", 1>>

AllIds == TaskIds \cup ChainIds \cup FlowIds \cup GroupIds \cup RetryIds
              \cup {FlowVideoTaskId}

Slots == 1..Concurrency

NoId == <<"none", 0>>

(***************************************************************************)
(* Messages and signatures                                                 *)
(***************************************************************************)
\* a signature of a canvas: the task it names, the number of positional
\* arguments it was built with, and for a chord the header signatures
Sig(id, ty, own) == [id |-> id, type |-> ty, own |-> own, header |-> <<>>]

ChordSig(hd, id, ty, own) == [id |-> id, type |-> ty, own |-> own, header |-> hd]

NoChord == [body |-> NoId, type |-> "none", own |-> 0, members |-> {}, chain |-> <<>>]

\* a task message as published to the broker
Msg(id, ty, prio, payload, nargs, chain, chord) ==
    [id |-> id, type |-> ty, prio |-> prio, retries |-> 0, eta |-> FALSE,
     payload |-> payload, nargs |-> nargs, chain |-> chain, chord |-> chord]

NoMsg == Msg(NoId, "none", 0, "none", 0, <<>>, NoChord)

Idle == [m |-> NoMsg, pc |-> "idle"]

\* the stored state of a task id nothing was ever written for
NoMeta == [status |-> PENDING, result |-> "none"]

Meta(st, res) == [status |-> st, result |-> res]

(***************************************************************************)
(* The Redis broker (broker=redis_url)                                     *)
(***************************************************************************)
\* the Redis transport keeps one list per priority step 0, 3, 6, 9 and
\* files a message under the highest step not above its clamped priority
Bucket(p) ==
    LET c == IF p > 9 THEN 9 ELSE IF p < 0 THEN 0 ELSE p
    IN  IF c >= 9 THEN 9 ELSE IF c >= 6 THEN 6 ELSE IF c >= 3 THEN 3 ELSE 0

\* BRPOP reads the lists in step order 0, 3, 6, 9: the message delivered
\* next is the oldest one of the lowest non-empty step
DequeueIndex(q) ==
    CHOOSE i \in 1..Len(q) :
        \A j \in 1..Len(q) :
            \/ Bucket(q[i].prio) < Bucket(q[j].prio)
            \/ Bucket(q[i].prio) = Bucket(q[j].prio) /\ i <= j

RemoveAt(q, i) == SubSeq(q, 1, i - 1) \o SubSeq(q, i + 1, Len(q))

\* a variant of PopMessage: the delivered message stays on the list
KeepMessage(q) == q

\* BRPOP takes the delivered message off the list
PopMessage(q) == RemoveAt(q, DequeueIndex(q))

\* publish the messages of ms, in order, each to the queue of its task
RECURSIVE Publish(_, _)
Publish(b, ms) ==
    IF ms = <<>> THEN b
    ELSE LET m == Head(ms)
         IN  Publish([b EXCEPT ![QueueOf(m.type)] = Append(@, m)], Tail(ms))

\* a variant of RequeueOnLost: the message of a lost child is not restored
RequeueDropped(b, m) == b

\* acks_late with reject_on_worker_lost: the unacknowledged message of a
\* lost child is rejected with requeue and restored at the head of its list
RequeueOnLost(b, m) == [b EXCEPT ![QueueOf(m.type)] = <<m>> \o @]

(***************************************************************************)
(* Canvas: what a finished task publishes and writes                       *)
(***************************************************************************)
\* the handler of m finds the keys it reads: it was called with one
\* positional argument, and that argument is its own parameter dict
KeysOk(m) == m.nargs = 1 /\ m.payload = ParamsOf(m.type)

\* a variant of CanRetry: one retry more than max_retries
CanRetryOnceMore(m) == m.retries <= MaxRetries(m.type)

\* if self.request.retries < self.max_retries
CanRetry(m) == m.retries < MaxRetries(m.type)

\* self.retry(countdown=..., exc=e): the same task id, one more retry, an ETA
RetryMsg(m) == [m EXCEPT !.retries = @ + 1, !.eta = TRUE]

\* a variant of Countdown: every handler retries after a minute
CountdownOneMinute(ty) == 60

\* the countdown each handler passes to self.retry, in seconds
Countdown(ty) ==
    CASE ty = "video" -> 60
      [] ty = "audio" -> 30
      [] ty = "image" -> 30
      [] ty = "summary" -> 60
      [] ty = "export" -> 15

\* a variant of NextMsgs: every later step is published at once
AllStepsAtOnce(m) ==
    [i \in 1..Len(m.chain) |->
        Msg(m.chain[i].id, m.chain[i].type, m.prio, ResultOf(m.type),
            1 + m.chain[i].own, <<>>, NoChord)]

\* the successor of a chain step: the first signature of the rest of the
\* chain, called with the step's return value before its own arguments; a
\* chord there publishes its header members, each carrying the body
NextMsgs(m) ==
    IF m.chain = <<>> THEN <<>>
    ELSE LET e == Head(m.chain)
             rest == Tail(m.chain)
             body == [body |-> e.id, type |-> e.type, own |-> e.own,
                      members |-> {e.header[i].id : i \in 1..Len(e.header)},
                      chain |-> rest]
         IN  IF e.header = <<>>
             THEN <<Msg(e.id, e.type, m.prio, ResultOf(m.type), 1 + e.own,
                        rest, NoChord)>>
             ELSE [i \in 1..Len(e.header) |->
                      Msg(e.header[i].id, e.header[i].type, m.prio,
                          ResultOf(m.type), 1 + e.header[i].own, <<>>, body)]

\* the chord body, called with the list of the header results
ChordBodyMsg(m) ==
    Msg(m.chord.body, m.chord.type, m.prio, "result_list", 1 + m.chord.own,
        m.chord.chain, NoChord)

\* the ids a failure is propagated to: every remaining signature of the chain
ChainIdsOf(m) == {m.chain[i].id : i \in 1..Len(m.chain)}

\* message m ends in state st with stored result res, the broker being b:
\* the state is stored; a FAILURE is stored for the rest of the chain too; a
\* chord member counts as returned and the last one to return calls the body
\* (all members SUCCESS) or fails it; a SUCCESS publishes the successor
Outcome(b, m, st, res) ==
    LET b1 == [backend EXCEPT ![m.id] = Meta(st, res)]
        b2 == IF st = FAILURE
              THEN [id \in AllIds |->
                       IF id \in ChainIdsOf(m) THEN Meta(FAILURE, "exc") ELSE b1[id]]
              ELSE b1
        parts == IF m.chord = NoChord THEN chordParts ELSE chordParts \cup {m.id}
        chordDone == m.chord # NoChord /\ m.chord.members \subseteq parts
        chordOk == chordDone /\ \A h \in m.chord.members : b2[h].status = SUCCESS
        b3 == IF chordDone /\ ~chordOk
              THEN [b2 EXCEPT ![m.chord.body] = Meta(FAILURE, "exc")]
              ELSE b2
        out == IF chordOk THEN <<ChordBodyMsg(m)>>
               ELSE IF st = SUCCESS THEN NextMsgs(m) ELSE <<>>
    IN  [backend |-> b3, broker |-> Publish(b, out), parts |-> parts,
         submitted |-> submitted \cup {out[i].id : i \in 1..Len(out)}]

RECURSIVE SumOver(_, _)
SumOver(f, S) ==
    IF S = {} THEN 0
    ELSE LET x == CHOOSE y \in S : TRUE IN f[x] + SumOver(f, S \ {x})

FreeSlots == {s \in Slots : slot[s].pc = "idle"}

\* the pool hands a request to a free child; the children are alike
FreeSlot == CHOOSE s \in FreeSlots : \A r \in FreeSlots : s <= r

(***************************************************************************)
(* Initial state                                                           *)
(***************************************************************************)
NoRecord == [task_id |-> 0, status |-> "absent", progress |-> 0, path |-> FALSE]

NoHandler == [type |-> "none", images |-> 0, extract_audio |-> FALSE,
              extract_frames |-> FALSE, log |-> <<>>]

NoBatch == [pc |-> "none", frame |-> 0, total |-> 0]

NoCall == [op |-> "none", id |-> 0, found |-> FALSE]

QsIds == 1..NumQsTasks

Init ==
    /\ broker = [q \in Queues |-> <<>>]
    /\ slot = [s \in Slots |-> Idle]
    /\ scheduled = {}
    /\ backend = [id \in AllIds |-> NoMeta]
    /\ revoked = {}
    /\ control = {}
    /\ chordParts = {}
    /\ submitted = {}
    /\ leased = {}
    /\ execs = [id \in AllIds |-> 0]
    /\ raises = [id \in AllIds |-> 0]
    /\ lost = [id \in AllIds |-> 0]
    /\ cancelAt = {}
    /\ lateCancel = {}
    /\ cancels = 0
    /\ groupMeta = {}
    /\ consuming = Queues
    /\ queueCtl = [sent |-> <<>>, read |-> 0]
    /\ qsQueue = <<>>
    /\ paused = {}
    /\ purges = <<>>
    /\ retried = {}
    /\ pg = NoHandler
    /\ clock = 0
    /\ notBefore = [id \in AllIds |-> 0]
    /\ qsTasks = [k \in QsIds |-> NoRecord]
    /\ qsFiles = [k \in QsIds |-> NoRecord]
    /\ qsLast = NoCall
    /\ bg = [k \in QsIds |-> <<>>]
    /\ batch = [k \in QsIds |-> NoBatch]

(***************************************************************************)
(* TaskManager: submission and cancellation                                *)
(***************************************************************************)
\* TaskManager.submit_video_processing and its four siblings: apply_async
\* with the router's fresh uuid4, the queue of the type and the priority value
SubmitTask(ty, p) ==
    LET t == <<"task", Cardinality(submitted \cap TaskIds) + 1>>
    IN  /\ t \in TaskIds
        /\ broker' = Publish(broker, <<Msg(t, ty, PriorityValue(p), ParamsOf(ty),
                                           1, <<>>, NoChord)>>)
        /\ submitted' = submitted \cup {t}
        /\ UNCHANGED <<slot, scheduled, backend, revoked, control, chordParts,
                       leased, execs, raises, lost, cancelAt, lateCancel,
                       cancels, qsVars, ctlVars, timeVars, pg>>

\* The phase of task t: its result is stored, a worker has taken a delivery
\* of it, or none has.
CancelPhase(t) ==
    IF backend[t].status \in Terminal THEN "terminal"
    ELSE IF t \in leased THEN "leased" ELSE "queued"

\* a variant of CancelTask: REVOKED is written to the backend by the call
CancelTaskStored(t, terminate) ==
    /\ cancels < MaxCancel
    /\ t \in submitted
    /\ cancels' = cancels + 1
    /\ control' = control \cup {[id |-> t, terminate |-> terminate]}
    /\ cancelAt' = cancelAt \cup {<<t, CancelPhase(t)>>}
    /\ backend' = [backend EXCEPT ![t] = Meta(REVOKED, "exc")]
    /\ UNCHANGED <<broker, slot, scheduled, revoked, chordParts,
                   submitted, leased, execs, raises, lost, lateCancel, qsVars, ctlVars, timeVars, pg>>

\* TaskManager.cancel_task: control.revoke broadcasts the id to the workers;
\* nothing is taken off the broker and nothing is written to the backend
CancelTask(t, terminate) ==
    /\ cancels < MaxCancel
    /\ t \in submitted
    /\ cancels' = cancels + 1
    /\ control' = control \cup {[id |-> t, terminate |-> terminate]}
    /\ cancelAt' = cancelAt \cup {<<t, CancelPhase(t)>>}
    /\ UNCHANGED <<broker, slot, scheduled, backend, revoked, chordParts,
                   submitted, leased, execs, raises, lost, lateCancel, qsVars, ctlVars, timeVars, pg>>

(***************************************************************************)
(* The worker                                                              *)
(***************************************************************************)
Holders(id) == {s \in Slots : slot[s].pc # "idle" /\ slot[s].m.id = id}

\* the worker reads a revoke broadcast: the id joins its revoked set; with
\* terminate the child running the task is killed and the task is REVOKED
ReadRevoke(c) ==
    /\ c \in control
    /\ control' = control \ {c}
    /\ revoked' = revoked \cup {c.id}
    /\ IF c.terminate /\ Holders(c.id) # {}
       THEN LET s == CHOOSE h \in Holders(c.id) : TRUE
                o == Outcome(broker, slot[s].m, REVOKED, "exc")
            IN  /\ slot' = [slot EXCEPT ![s] = Idle]
                /\ backend' = o.backend
                /\ broker' = o.broker
                /\ chordParts' = o.parts
                /\ submitted' = o.submitted
                /\ lateCancel' = lateCancel
       ELSE /\ lateCancel' = IF Holders(c.id) # {} THEN lateCancel \cup {c.id}
                              ELSE lateCancel
            /\ UNCHANGED <<slot, backend, broker, chordParts, submitted>>
    /\ UNCHANGED <<scheduled, leased, execs, raises, lost, cancelAt, cancels,
                   qsVars, ctlVars, timeVars, pg>>

\* the worker has taken message m off the broker (left as b) or off its timer
\* (left as sch): a revoked id is marked REVOKED and acknowledged without
\* running; a message with an ETA waits in the timer; any other goes to a child.
\* A message whose task name is not registered is rejected and its id marked
\* FAILURE with NotRegistered, which has no traceback.
Accept(m, b, sch) ==
    /\ IF m.type \notin TaskTypes
       THEN /\ backend' = [backend EXCEPT ![m.id] = Meta(FAILURE, "notregistered")]
            /\ broker' = b
            /\ scheduled' = sch
            /\ UNCHANGED <<slot, leased, chordParts, submitted>>
       ELSE IF m.id \in revoked
       THEN LET o == Outcome(b, m, REVOKED, "exc")
            IN  /\ backend' = o.backend
                /\ broker' = o.broker
                /\ chordParts' = o.parts
                /\ submitted' = o.submitted
                /\ scheduled' = sch
                /\ UNCHANGED <<slot, leased>>
       ELSE IF m.eta
       THEN /\ scheduled' = sch \cup {[m EXCEPT !.eta = FALSE]}
            /\ broker' = b
            /\ leased' = leased \cup {m.id}
            /\ UNCHANGED <<slot, backend, chordParts, submitted>>
       ELSE /\ slot' = [slot EXCEPT ![FreeSlot] = [m |-> m, pc |-> "reserved"]]
            /\ broker' = b
            /\ scheduled' = sch
            /\ leased' = leased \cup {m.id}
            /\ UNCHANGED <<backend, chordParts, submitted>>
    /\ UNCHANGED <<revoked, control, execs, raises, lost, cancelAt, lateCancel,
                   cancels, qsVars, ctlVars, timeVars, pg>>

\* the consumer takes the next message of queue q while a child is free
\* (worker_prefetch_multiplier=1, acks_late: one unacknowledged message per child)
Dequeue(q) ==
    /\ q \in consuming
    /\ broker[q] # <<>>
    /\ FreeSlots # {}
    /\ Accept(broker[q][DequeueIndex(broker[q])],
              [broker EXCEPT ![q] = PopMessage(@)], scheduled)

\* the ETA of a retry is reached and a child is free
Due(m) ==
    /\ m \in scheduled
    /\ FreeSlots # {}
    /\ Accept(m, broker, scheduled \ {m})

\* the same step where time is modelled: the timer fires at the ETA
TimerDue(m) ==
    /\ clock >= notBefore[m.id]
    /\ Due(m)

\* a quarter of a minute passes.  Only an ETA is compared with the clock, so
\* time is counted while some retry message exists.
Tick ==
    /\ clock + 15 <= MaxClock
    /\ \/ scheduled # {}
       \/ \E q \in Queues : \E i \in 1..Len(broker[q]) : broker[q][i].eta
    /\ clock' = clock + 15
    /\ UNCHANGED <<broker, slot, scheduled, backend, revoked, control,
                   chordParts, submitted, leased, execs, raises, lost,
                   cancelAt, lateCancel, cancels, ctlVars, notBefore, qsVars,
                   pg>>

\* the child and the worker are done with the message of slot s: outcome o
Finish(s, o) ==
    /\ slot' = [slot EXCEPT ![s] = Idle]
    /\ backend' = o.backend
    /\ broker' = o.broker
    /\ chordParts' = o.parts
    /\ submitted' = o.submitted

\* the child calls the task function.  With the wrong number of positional
\* arguments the call itself raises TypeError outside the handler's try: the
\* task fails at once.  Otherwise the handler's first statement runs:
\* self.update_state(state=TaskStatus.STARTED, ...)
Start(s) ==
    /\ slot[s].pc = "reserved"
    /\ LET m == slot[s].m
       IN  IF m.nargs # 1
           THEN /\ Finish(s, Outcome(broker, m, FAILURE, "exc"))
                /\ UNCHANGED execs
           ELSE /\ slot' = [slot EXCEPT ![s].pc = "started"]
                /\ backend' = [backend EXCEPT ![m.id] = Meta(STARTED, "meta")]
                /\ execs' = [execs EXCEPT ![m.id] = @ + 1]
                /\ UNCHANGED <<broker, chordParts, submitted>>
    /\ UNCHANGED <<scheduled, revoked, control, leased, raises, lost,
                   cancelAt, lateCancel, cancels, qsVars, ctlVars, timeVars, pg>>

\* update_task_progress: current_task.update_state(state=PROGRESS, meta=...)
Progress(s) ==
    /\ slot[s].pc = "started"
    /\ KeysOk(slot[s].m)
    /\ slot' = [slot EXCEPT ![s].pc = "progress"]
    /\ backend' = [backend EXCEPT ![slot[s].m.id] = Meta(PROGRESS, "progress")]
    /\ UNCHANGED <<broker, scheduled, revoked, control, chordParts, submitted,
                   leased, execs, raises, lost, cancelAt, lateCancel, cancels,
                   qsVars, ctlVars, timeVars, pg>>

\* the handler returns its result after update_task_progress(100, 100, ...)
Return(s) ==
    /\ slot[s].pc = "progress"
    /\ KeysOk(slot[s].m)
    /\ Finish(s, Outcome(broker, slot[s].m, SUCCESS, "retval"))
    /\ UNCHANGED <<scheduled, revoked, control, leased, execs, raises, lost,
                   cancelAt, lateCancel, cancels, qsVars, ctlVars, timeVars, pg>>

\* the handler body raises (a missing payload key right after STARTED, or the
\* service call at any point): except Exception retries while retries remain,
\* else update_state(FAILURE) and re-raise
Raise(s) ==
    /\ slot[s].pc \in {"started", "progress"}
    /\ LET m == slot[s].m
       IN  /\ raises' = [raises EXCEPT ![m.id] = @ + 1]
           /\ IF CanRetry(m)
              THEN /\ slot' = [slot EXCEPT ![s] = Idle]
                   /\ backend' = [backend EXCEPT ![m.id] = Meta(RETRY, "exc")]
                   /\ broker' = Publish(broker, <<RetryMsg(m)>>)
                   /\ notBefore' = [notBefore EXCEPT ![m.id] = clock + Countdown(m.type)]
                   /\ UNCHANGED <<chordParts, submitted>>
              ELSE /\ Finish(s, Outcome(broker, m, FAILURE, "exc"))
                   /\ UNCHANGED notBefore
    /\ UNCHANGED <<scheduled, revoked, control, leased, execs, lost,
                   cancelAt, lateCancel, cancels, qsVars, ctlVars, clock, pg>>

\* a variant of ChildLost: the lost delivery is also stored as FAILURE
ChildLostMarked(s) ==
    /\ slot[s].pc # "idle"
    /\ SumOver(lost, AllIds) < MaxLost
    /\ slot' = [slot EXCEPT ![s] = Idle]
    /\ broker' = RequeueOnLost(broker, slot[s].m)
    /\ lost' = [lost EXCEPT ![slot[s].m.id] = @ + 1]
    /\ backend' = [backend EXCEPT ![slot[s].m.id] = Meta(FAILURE, "exc")]
    /\ UNCHANGED <<scheduled, revoked, control, chordParts, submitted,
                   leased, execs, raises, cancelAt, lateCancel, cancels, qsVars, ctlVars, timeVars, pg>>

\* the child holding a message is lost before the task is acknowledged
ChildLost(s) ==
    /\ slot[s].pc # "idle"
    /\ SumOver(lost, AllIds) < MaxLost
    /\ slot' = [slot EXCEPT ![s] = Idle]
    /\ broker' = RequeueOnLost(broker, slot[s].m)
    /\ lost' = [lost EXCEPT ![slot[s].m.id] = @ + 1]
    /\ UNCHANGED <<scheduled, backend, revoked, control, chordParts, submitted,
                   leased, execs, raises, cancelAt, lateCancel, cancels, qsVars, ctlVars, timeVars, pg>>

(***************************************************************************)
(* Canvas workflows                                                        *)
(***************************************************************************)
\* create_video_processing_chain: chain(video.s({...}), audio.s(), image.s(),
\* summary.s(), export.s({...})).apply_async(); the id returned is the id of
\* the last task of the chain
SubmitChain ==
    /\ submitted = {}
    /\ broker' = Publish(broker,
           <<Msg(<<"chain", 1>>, "video", 0, ParamsOf("video"), 1,
                 <<Sig(<<"chain", 2>>, "audio", 0), Sig(<<"chain", 3>>, "image", 0),
                   Sig(<<"chain", 4>>, "summary", 0), Sig(<<"chain", 5>>, "export", 1)>>,
                 NoChord)>>)
    /\ submitted' = {<<"chain", 1>>}
    /\ UNCHANGED <<slot, scheduled, backend, revoked, control, chordParts,
                   leased, execs, raises, lost, cancelAt, lateCancel,
                   cancels, qsVars, ctlVars, timeVars, pg>>

\* submit_complete_video_analysis: chain(video.s(params), group(audio.s(),
\* image.s()), summary.s(), export.s({...})).apply_async(task_id=workflow_id);
\* the group followed by a task is a chord with that task as its body, and
\* task_id names the last task of the chain
SubmitFlow ==
    /\ submitted = {}
    /\ broker' = Publish(broker,
           <<Msg(<<"flow", 1>>, "video", 0, ParamsOf("video"), 1,
                 <<ChordSig(<<Sig(<<"flow", 2>>, "audio", 0),
                              Sig(<<"flow", 3>>, "image", 0)>>,
                            <<"flow", 4>>, "summary", 0),
                   Sig(<<"flow", 5>>, "export", 1)>>,
                 NoChord)>>)
    /\ submitted' = {<<"flow", 1>>}
    /\ UNCHANGED <<slot, scheduled, backend, revoked, control, chordParts,
                   leased, execs, raises, lost, cancelAt, lateCancel,
                   cancels, qsVars, ctlVars, timeVars, pg>>

\* submit_parallel_analysis and create_parallel_analysis_group:
\* group(audio.s({...}), image.s({...})).apply_async(); each member is
\* published with its own dict, the group result is not saved, its id is
\* returned
SubmitGroup ==
    /\ submitted = {}
    /\ broker' = Publish(broker,
                     <<Msg(<<"group", 1>>, "audio", 0, ParamsOf("audio"), 1,
                           <<>>, NoChord),
                       Msg(<<"group", 2>>, "image", 0, ParamsOf("image"), 1,
                           <<>>, NoChord)>>)
    /\ submitted' = GroupIds
    /\ UNCHANGED <<slot, scheduled, backend, revoked, control, chordParts,
                   leased, execs, raises, lost, cancelAt, lateCancel,
                   cancels, qsVars, ctlVars, timeVars, pg>>

GroupId == <<"groupid", 1>>

\* TaskManager.get_group_status: GroupResult.restore finds only a saved group
GetGroupStatus(g) ==
    IF g \notin groupMeta
    THEN [error |-> "Group not found"]
    ELSE [group_id |-> g,
          completed |-> Cardinality({t \in GroupIds : backend[t].status = SUCCESS}),
          total |-> Cardinality(GroupIds),
          successful |-> \A t \in GroupIds : backend[t].status = SUCCESS,
          failed |-> \E t \in GroupIds : backend[t].status = FAILURE,
          ready |-> \A t \in GroupIds : backend[t].status \in Terminal,
          results |-> [t \in GroupIds |-> backend[t]]]

\* the id each canvas returns to its caller
ChainWorkflowId == <<"chain", 5>>
FlowWorkflowId == <<"flow", 5>>

(***************************************************************************)
(* QueueService and the processing router.  Progress is kept in tenths.    *)
(***************************************************************************)
EXTRACTING == "extracting"
PROCESSING_AUDIO == "processing_audio"
PROCESSING_FRAMES == "processing_frames"
GENERATING_OUTPUT == "generating_output"
COMPLETED == "completed"
FAILED == "failed"
CANCELLED == "cancelled"

\* a variant of UpdateTaskStatus: the record is written anew, whether or not
\* the id has one
UpdateTaskStatusUpsert(ts, k, st, pr) ==
    [ts EXCEPT ![k] = [task_id |-> k, status |-> st, progress |-> pr, path |-> FALSE]]

\* QueueService.update_task_status: nothing for an unknown id, else the
\* status and the progress are overwritten.
UpdateTaskStatus(ts, k, st, pr) ==
    IF ts[k] = NoRecord THEN ts
    ELSE [ts EXCEPT ![k].status = st, ![k].progress = pr]

\* a variant of SaveTask: the file is left as it was
SaveNothing(fs, ts, k) == fs

\* QueueService._save_task: nothing for an unknown id, else the record is
\* written to the file named after the id
SaveTask(fs, ts, k) ==
    IF ts[k] = NoRecord THEN fs ELSE [fs EXCEPT ![k] = ts[k]]

\* the call update_task_status(k, st, pr) as a step: the record, then its
\* file; an unknown id returns before the save
QsUpdate(k, st, pr) ==
    /\ qsTasks' = UpdateTaskStatus(qsTasks, k, st, pr)
    /\ qsFiles' = IF qsTasks[k] = NoRecord THEN qsFiles
                  ELSE SaveTask(qsFiles, UpdateTaskStatus(qsTasks, k, st, pr), k)
    /\ qsLast' = [op |-> "update", id |-> k, found |-> qsTasks[k] # NoRecord]

\* the call create_task(rec) as a step: self.tasks[task_id] = task_data,
\* whether or not the id has a record, then the save
QsCreate(rec) ==
    LET ts == [qsTasks EXCEPT ![rec.task_id] = rec]
    IN  /\ qsTasks' = ts
        /\ qsFiles' = SaveTask(qsFiles, ts, rec.task_id)
        /\ qsLast' = [op |-> "create", id |-> rec.task_id,
                      found |-> qsTasks[rec.task_id] # NoRecord]

\* QueueService.create_task under a fresh id, with or without a file path.
CreateTask(k, path) ==
    /\ qsTasks[k] = NoRecord
    /\ QsCreate([task_id |-> k, status |-> PENDING, progress |-> 0, path |-> path])
    /\ UNCHANGED <<bg, batch, celeryVars>>

\* QueueService.create_task with the id and the data the caller gives
CreateTaskWith(k, st, pr, path) ==
    /\ QsCreate([task_id |-> k, status |-> st, progress |-> pr, path |-> path])
    /\ UNCHANGED <<bg, batch, celeryVars>>

\* QueueService.update_task_status called directly, for any id
UpdateStatus(k, st, pr) ==
    /\ QsUpdate(k, st, pr)
    /\ UNCHANGED <<bg, batch, celeryVars>>

\* QueueService.delete_task: False for an unknown id, else the record is
\* removed from memory and its file is unlinked
DeleteTask(k) ==
    /\ qsTasks' = [qsTasks EXCEPT ![k] = NoRecord]
    /\ qsFiles' = IF qsTasks[k] = NoRecord THEN qsFiles
                  ELSE [qsFiles EXCEPT ![k] = NoRecord]
    /\ qsLast' = [op |-> "delete", id |-> k, found |-> qsTasks[k] # NoRecord]
    /\ UNCHANGED <<bg, batch, celeryVars>>

\* QueueService._load_tasks: every file that holds a task_id is read into
\* the map under that task_id
LoadTasks(fs) ==
    [k \in QsIds |->
        LET F == {f \in QsIds : fs[f] # NoRecord /\ fs[f].task_id = k}
        IN  IF F = {} THEN NoRecord ELSE fs[CHOOSE f \in F : TRUE]]

\* the process is started anew: QueueService() begins with an empty map and
\* loads the files; the coroutines of the old process are gone
Restart ==
    /\ qsTasks' = LoadTasks(qsFiles)
    /\ qsLast' = [op |-> "load", id |-> 0, found |-> FALSE]
    /\ bg' = [k \in QsIds |-> <<>>]
    /\ UNCHANGED <<qsFiles, batch, celeryVars>>

\* POST /processing/start: 404 for an unknown id, else the record goes to
\* pending and a process_video_task coroutine is added.
StartProcessing(k) ==
    /\ qsTasks[k] # NoRecord
    /\ Len(bg[k]) < MaxBg
    /\ QsUpdate(k, PENDING, 0)
    /\ bg' = [bg EXCEPT ![k] = Append(@, "queued")]
    /\ UNCHANGED <<batch, celeryVars>>

\* a variant of CancelRejected: only a completed task is refused
CancelRejectedCompleted(st) == st = COMPLETED

\* cancel_processing refuses a task whose status is completed or failed
CancelRejected(st) == st = COMPLETED \/ st = FAILED

CancelAnswers == {"cancel_404", "cancel_400", "cancel_200"}

\* DELETE /processing/{task_id}: 404 for an unknown id, 400 for a completed
\* or failed task, else update_task_status(task_id, CANCELLED) with the
\* default progress 0.0, and the answer {"success": True}.
CancelProcessing(k) ==
    /\ IF qsTasks[k] = NoRecord
       THEN /\ qsLast' = [op |-> "cancel_404", id |-> k, found |-> FALSE]
            /\ UNCHANGED <<qsTasks, qsFiles>>
       ELSE IF CancelRejected(qsTasks[k].status)
       THEN /\ qsLast' = [op |-> "cancel_400", id |-> k, found |-> TRUE]
            /\ UNCHANGED <<qsTasks, qsFiles>>
       ELSE LET ts == UpdateTaskStatus(qsTasks, k, CANCELLED, 0)
            IN  /\ qsTasks' = ts
                /\ qsFiles' = SaveTask(qsFiles, ts, k)
                /\ qsLast' = [op |-> "cancel_200", id |-> k, found |-> TRUE]
    /\ UNCHANGED <<bg, batch, celeryVars>>

\* The status and progress process_video_task writes when the await at
\* position pc returns, and its next position.
BgWrite(pc) ==
    CASE pc = "queued" -> [status |-> EXTRACTING, progress |-> 1, pc |-> "metadata"]
      [] pc = "metadata" -> [status |-> PROCESSING_AUDIO, progress |-> 2, pc |-> "audio"]
      [] pc = "audio" -> [status |-> PROCESSING_FRAMES, progress |-> 4, pc |-> "frames"]
      [] pc = "frames" -> [status |-> GENERATING_OUTPUT, progress |-> 8, pc |-> "saving"]
      [] pc = "saving" -> [status |-> COMPLETED, progress |-> 10, pc |-> "done"]

\* process_video_task runs to its next await: the first stretch fails at once
\* without a file path.
BgStep(k, i) ==
    /\ i \in 1..Len(bg[k])
    /\ bg[k][i] # "done"
    /\ LET w == BgWrite(bg[k][i])
       IN IF bg[k][i] = "queued" /\ ~qsTasks[k].path
          THEN /\ QsUpdate(k, FAILED, 0)
               /\ bg' = [bg EXCEPT ![k][i] = "done"]
          ELSE /\ QsUpdate(k, w.status, w.progress)
               /\ bg' = [bg EXCEPT ![k][i] = w.pc]
    /\ UNCHANGED <<batch, celeryVars>>

\* An awaited call of process_video_task raises: the except branch writes
\* failed.
BgRaise(k, i) ==
    /\ i \in 1..Len(bg[k])
    /\ bg[k][i] \notin {"queued", "done"}
    /\ QsUpdate(k, FAILED, 0)
    /\ bg' = [bg EXCEPT ![k][i] = "done"]
    /\ UNCHANGED <<batch, celeryVars>>

(***************************************************************************)
(* The image recognition router: batch analysis over QueueService.  The    *)
(* event loop runs a coroutine from one await to the next without          *)
(* interruption; cancel_analysis_task has no await.                        *)
(***************************************************************************)
IN_PROGRESS == "in_progress"

\* POST /batch-analyze: a record under a fresh id, status pending, and
\* _process_batch_analysis as a background task over n frames
BatchAnalyzeImages(k, n) ==
    /\ qsTasks[k] = NoRecord
    /\ batch[k] = NoBatch
    /\ QsCreate([task_id |-> k, status |-> PENDING, progress |-> 0, path |-> FALSE])
    /\ batch' = [batch EXCEPT ![k] = [pc |-> "queued", frame |-> 0, total |-> n]]
    /\ UNCHANGED <<bg, celeryVars>>

\* DELETE /image-recognition/{task_id}: 404 for an unknown id, else
\* update_task_status(task_id, "cancelled", 0.0); a batch record has no
\* file_path to unlink
CancelAnalysisTask(k) ==
    /\ qsTasks[k] # NoRecord
    /\ QsUpdate(k, CANCELLED, 0)
    /\ UNCHANGED <<bg, batch, celeryVars>>

\* _process_batch_analysis runs to its next await.
\* From the start: in_progress is written, the first iteration reads that
\* status and awaits the analysis of the first frame.
\* From the await of frame i, returned or raised: on return the progress is
\* assigned on the record in place (task is the dict QueueService holds) and
\* queue_service.update_task, which QueueService does not have, raises into
\* the except of the loop.  Then, before the last frame: the next iteration
\* returns if the status is cancelled, else awaits the next frame.  After
\* the last frame: status and progress are assigned in place, update_task
\* raises into the outer except, which writes failed.
BatchStep(k, returned) ==
    /\ batch[k].pc \in {"queued", "await"}
    /\ LET b == batch[k]
           inPlace == IF returned
                      THEN [qsTasks EXCEPT ![k].progress = 5 + (b.frame * 90) \div b.total]
                      ELSE qsTasks
       IN  IF b.pc = "queued"
           THEN /\ returned
                /\ QsUpdate(k, IN_PROGRESS, 5)
                /\ batch' = [batch EXCEPT ![k].pc = "await", ![k].frame = 1]
           ELSE IF b.frame < b.total
           THEN /\ qsTasks' = inPlace
                /\ batch' = IF qsTasks[k].status = CANCELLED
                            THEN [batch EXCEPT ![k].pc = "done"]
                            ELSE [batch EXCEPT ![k].frame = @ + 1]
                /\ UNCHANGED <<qsFiles, qsLast>>
           ELSE LET done == [inPlace EXCEPT ![k].status = COMPLETED,
                                            ![k].progress = 100]
                    ts == UpdateTaskStatus(done, k, FAILED, 0)
                IN  /\ qsTasks' = ts
                    /\ qsFiles' = SaveTask(qsFiles, ts, k)
                    /\ qsLast' = [op |-> "update", id |-> k, found |-> TRUE]
                    /\ batch' = [batch EXCEPT ![k].pc = "done"]
    /\ UNCHANGED <<bg, celeryVars>>

(***************************************************************************)
(* The progress a handler writes, call by call.  A percentage is kept as   *)
(* the fraction num/den.                                                   *)
(***************************************************************************)
\* a variant of Percentage: the current count is taken for the percentage
PercentageOfCurrent(current, total) == [num |-> current, den |-> 1]

\* update_task_progress: (current / total) * 100 if total > 0 else 0
Percentage(current, total) ==
    IF total > 0 THEN [num |-> current * 100, den |-> total]
    ELSE [num |-> 0, den |-> 1]

\* TaskProgress.percentage: Field(ge=0.0, le=100.0)
ValidPercentage(p) == 0 <= p.num /\ p.num <= 100 * p.den

\* the arguments of the calls of update_task_progress a handler makes, in
\* order, when no service call raises
ProgressCalls(t) ==
    CASE t.type = "video" ->
            (IF t.extract_audio THEN <<(<<25, 100>>)>> ELSE <<>>)
            \o (IF t.extract_frames THEN <<(<<75, 100>>)>> ELSE <<>>)
            \o <<(<<100, 100>>)>>
      [] t.type = "image" ->
            [i \in 1..t.images |-> <<i, t.images>>] \o <<(<<100, 100>>)>>
      [] OTHER -> <<(<<50, 100>>), (<<100, 100>>)>>

\* the task function is called with its task data
CallHandler(ty, n, a, f) ==
    /\ pg = NoHandler
    /\ ty = "image" \/ n = 0
    /\ ty = "video" \/ (a /\ f)
    /\ pg' = [type |-> ty, images |-> n, extract_audio |-> a,
              extract_frames |-> f, log |-> <<>>]
    /\ UNCHANGED <<broker, slot, scheduled, backend, revoked, control,
                   chordParts, submitted, leased, execs, raises, lost,
                   cancelAt, lateCancel, cancels, ctlVars, timeVars, qsVars>>

\* the handler's next call of update_task_progress: the TaskProgress is
\* built and validated, then written with update_state(state=PROGRESS)
UpdateTaskProgress ==
    /\ pg # NoHandler
    /\ Len(pg.log) < Len(ProgressCalls(pg))
    /\ LET c == ProgressCalls(pg)[Len(pg.log) + 1]
           p == Percentage(c[1], c[2])
       IN  /\ ValidPercentage(p)
           /\ pg' = [pg EXCEPT !.log = Append(@, [current |-> c[1], total |-> c[2],
                                                  percentage |-> p])]
    /\ UNCHANGED <<broker, slot, scheduled, backend, revoked, control,
                   chordParts, submitted, leased, execs, raises, lost,
                   cancelAt, lateCancel, cancels, ctlVars, timeVars, qsVars>>

(***************************************************************************)
(* TaskManager: status query, retry and queue control                      *)
(***************************************************************************)
\* TaskManager.get_task_status: the record built from AsyncResult(task_id).
\* An id nothing was stored for reads as PENDING.  The stored exception of a
\* handler that raised carries its traceback; NotRegistered is stored by the
\* consumer without one.  progress is set in state PROGRESS only.
GetTaskStatus(id) ==
    LET r == backend[id]
    IN  [task_id |-> id,
         status |-> r.status,
         result |-> IF r.status = SUCCESS THEN r.result ELSE "none",
         error |-> IF r.status = FAILURE THEN r.result ELSE "none",
         traceback |-> IF r.status = FAILURE /\ r.result = "exc"
                       THEN "traceback" ELSE "none",
         progress |-> IF r.status = PROGRESS /\ r.result = "progress"
                      THEN "progress" ELSE "none"]

\* TaskManager.generate_task_statistics: the figures are written in the
\* code; neither the result backend nor the broker is read
GenerateTaskStatistics ==
    [total_tasks |-> 100, pending_tasks |-> 5, running_tasks |-> 3,
     completed_tasks |-> 85, failed_tasks |-> 7, queue_size |-> 8]

\* TaskManager.retry_task: a task that has not failed raises ValueError and
\* nothing is sent; else send_task(result.name, args=result.args,
\* kwargs=result.kwargs) under a fresh id.  The backend stores name, args and
\* kwargs only with result_extended, which create_celery_app does not set:
\* all three read None, and send_task publishes whatever name it is given.
RetryTask(t) ==
    LET n == <<"retry", Cardinality(retried) + 1>>
    IN  /\ Cardinality(retried) < MaxRetryCalls
        /\ backend[t].status = FAILURE
        /\ broker' = Publish(broker, <<Msg(n, "none", 0, "none", 0, <<>>, NoChord)>>)
        /\ submitted' = submitted \cup {n}
        /\ retried' = retried \cup {<<t, n>>}
        /\ UNCHANGED <<slot, scheduled, backend, revoked, control, chordParts,
                       leased, execs, raises, lost, cancelAt, lateCancel,
                       cancels, groupMeta, consuming, queueCtl, qsQueue,
                       paused, purges, qsVars, timeVars, pg>>

\* TaskManager.pause_queue: control.cancel_consumer(queue_name) broadcasts to
\* the workers and returns True without waiting for a reply
PauseQueue(q) ==
    /\ Len(queueCtl.sent) < MaxQueueCtl
    /\ queueCtl' = [queueCtl EXCEPT !.sent = Append(@, [op |-> "cancel", queue |-> q])]
    /\ paused' = paused \cup {q}
    /\ UNCHANGED <<broker, slot, scheduled, backend, revoked, control,
                   chordParts, submitted, leased, execs, raises, lost,
                   cancelAt, lateCancel, cancels, groupMeta, consuming,
                   qsQueue, purges, retried, qsVars, timeVars, pg>>

\* TaskManager.resume_queue: control.add_consumer(queue_name), likewise
ResumeQueue(q) ==
    /\ Len(queueCtl.sent) < MaxQueueCtl
    /\ queueCtl' = [queueCtl EXCEPT !.sent = Append(@, [op |-> "add", queue |-> q])]
    /\ paused' = paused \ {q}
    /\ UNCHANGED <<broker, slot, scheduled, backend, revoked, control,
                   chordParts, submitted, leased, execs, raises, lost,
                   cancelAt, lateCancel, cancels, groupMeta, consuming,
                   qsQueue, purges, retried, qsVars, timeVars, pg>>

\* the worker reads the next broadcast and stops or starts consuming
ReadQueueCtl ==
    /\ queueCtl.read < Len(queueCtl.sent)
    /\ LET c == queueCtl.sent[queueCtl.read + 1]
       IN  consuming' = IF c.op = "cancel" THEN consuming \ {c.queue}
                        ELSE consuming \cup {c.queue}
    /\ queueCtl' = [queueCtl EXCEPT !.read = @ + 1]
    /\ UNCHANGED <<broker, slot, scheduled, backend, revoked, control,
                   chordParts, submitted, leased, execs, raises, lost,
                   cancelAt, lateCancel, cancels, groupMeta, qsQueue, paused,
                   purges, retried, qsVars, timeVars, pg>>

\* TaskManager.purge_queue: control.purge() takes no queue name; it empties
\* every queue of task_queues and returns the number of messages discarded
PurgeQueue(q) ==
    /\ Len(purges) < MaxPurge
    /\ broker' = [x \in Queues |-> <<>>]
    /\ purges' = Append(purges,
                        [queue |-> q,
                         count |-> SumOver([x \in Queues |-> Len(broker[x])], Queues)])
    /\ UNCHANGED <<slot, scheduled, backend, revoked, control, chordParts,
                   submitted, leased, execs, raises, lost, cancelAt,
                   lateCancel, cancels, groupMeta, consuming, queueCtl,
                   qsQueue, paused, retried, qsVars, timeVars, pg>>

\* QueueService.enqueue_task(task_id, task_func): with use_celery,
\* send_task(task_func, args=[task_id], task_id=task_id) on the service's own
\* Celery app; without, nothing is published.  Either way an id is returned.
EnqueueTask(k, func, useCelery) ==
    /\ Len(qsQueue) < MaxEnqueue
    /\ qsQueue' = IF useCelery
                   THEN Append(qsQueue, Msg(<<"qs", k>>, func, 0, "task_id", 1,
                                            <<>>, NoChord))
                   ELSE qsQueue
    /\ UNCHANGED <<broker, slot, scheduled, backend, revoked, control,
                   chordParts, submitted, leased, execs, raises, lost,
                   cancelAt, lateCancel, cancels, groupMeta, consuming,
                   queueCtl, paused, purges, retried, qsVars, timeVars, pg>>

(***************************************************************************)
(* The task engine, one job a run: a task or the chain, with cancellation  *)
(* and lost children.  The priority of a lone message decides nothing, so  *)
(* the task is submitted with the default one.                             *)
(***************************************************************************)
Work ==
    \/ \E q \in Queues : Dequeue(q)
    \/ \E m \in scheduled : Due(m)
    \/ \E s \in Slots : Start(s)
    \/ \E s \in Slots : Progress(s)
    \/ \E s \in Slots : Return(s)
    \/ \E s \in Slots : Raise(s)

Next ==
    \/ \E ty \in TaskTypes : submitted = {} /\ SubmitTask(ty, "normal")
    \/ SubmitChain
    \/ \E t \in AllIds, term \in BOOLEAN : CancelTask(t, term)
    \/ \E c \in control : ReadRevoke(c)
    \/ \E s \in Slots : ChildLost(s)
    \/ Work

Spec == Init /\ [][Next]_vars

(***************************************************************************)
(* The task engine, one canvas a run: the chain, the workflow or the group *)
(***************************************************************************)
NextCanvas ==
    \/ SubmitChain
    \/ SubmitFlow
    \/ SubmitGroup
    \/ \E s \in Slots : ChildLost(s)
    \/ Work

SpecCanvas == Init /\ [][NextCanvas]_vars

(***************************************************************************)
(* The task engine, several tasks on one queue                             *)
(***************************************************************************)
NextQueue ==
    \/ \E p \in TaskPriority : SubmitTask("video", p)
    \/ \E q \in Queues : Dequeue(q)
    \/ \E s \in Slots : Start(s)
    \/ \E s \in Slots : Progress(s)
    \/ \E s \in Slots : Return(s)
    \/ \E s \in Slots : ChildLost(s)

SpecQueue == Init /\ [][NextQueue]_vars

(***************************************************************************)
(* The task engine with status queries and retry_task                      *)
(***************************************************************************)
NextAdmin ==
    \/ \E ty \in {"video", "audio"} : SubmitTask(ty, "normal")
    \/ \E t \in AllIds : RetryTask(t)
    \/ Work

SpecAdmin == Init /\ [][NextAdmin]_vars

(***************************************************************************)
(* The task engine with paused, resumed and purged queues; handlers that   *)
(* do not raise                                                            *)
(***************************************************************************)
NextControl ==
    \/ \E ty \in {"video", "audio"} : SubmitTask(ty, "normal")
    \/ \E ty \in {"video", "audio"} : PauseQueue(QueueOf(ty))
    \/ \E ty \in {"video", "audio"} : ResumeQueue(QueueOf(ty))
    \/ ReadQueueCtl
    \/ \E ty \in {"video", "audio"} : PurgeQueue(QueueOf(ty))
    \/ \E q \in Queues : Dequeue(q)
    \/ \E s \in Slots : Start(s)
    \/ \E s \in Slots : Progress(s)
    \/ \E s \in Slots : Return(s)

SpecControl == Init /\ [][NextControl]_vars

(***************************************************************************)
(* The task engine with a worker that stays alive and keeps working: one   *)
(* task or one canvas a run, no cancellation, no lost child                *)
(***************************************************************************)
NextLive ==
    \/ \E ty \in TaskTypes : submitted = {} /\ SubmitTask(ty, "normal")
    \/ SubmitChain
    \/ SubmitFlow
    \/ SubmitGroup
    \/ Work

SpecLive == Init /\ [][NextLive]_vars /\ WF_vars(Work)

(***************************************************************************)
(* The task engine with a clock, one task a run: retries wait for their ETA *)
(***************************************************************************)
NextTimed ==
    \/ \E ty \in TaskTypes : submitted = {} /\ SubmitTask(ty, "normal")
    \/ Tick
    \/ \E q \in Queues : Dequeue(q)
    \/ \E m \in scheduled : TimerDue(m)
    \/ \E s \in Slots : Start(s)
    \/ \E s \in Slots : Progress(s)
    \/ \E s \in Slots : Return(s)
    \/ \E s \in Slots : Raise(s)

SpecTimed == Init /\ [][NextTimed]_vars

(***************************************************************************)
(* One handler run and the progress it writes                              *)
(***************************************************************************)
NextProgress ==
    \/ \E ty \in TaskTypes, n \in 0..MaxImages, a \in BOOLEAN, f \in BOOLEAN :
           CallHandler(ty, n, a, f)
    \/ UpdateTaskProgress

SpecProgress == Init /\ [][NextProgress]_vars

(***************************************************************************)
(* QueueService as a store: records created, updated, deleted and reloaded *)
(***************************************************************************)
StoreStatus == {PENDING, COMPLETED}
StoreProgress == {0, 10}

NextStore ==
    \/ \E k \in QsIds, st \in StoreStatus, pr \in StoreProgress, path \in BOOLEAN :
           CreateTaskWith(k, st, pr, path)
    \/ \E k \in QsIds, st \in StoreStatus, pr \in StoreProgress :
           UpdateStatus(k, st, pr)
    \/ \E k \in QsIds : DeleteTask(k)
    \/ Restart

SpecStore == Init /\ [][NextStore]_vars

(***************************************************************************)
(* cancel_processing over a store whose records take every status of       *)
(* ProcessingStatus, written as the processing coroutines write them, by   *)
(* update_task_status                                                      *)
(***************************************************************************)
ProcessingStatuses ==
    {PENDING, EXTRACTING, "analyzing", PROCESSING_AUDIO, PROCESSING_FRAMES,
     GENERATING_OUTPUT, COMPLETED, FAILED, CANCELLED}

NextCancel ==
    \/ \E k \in QsIds : CreateTask(k, TRUE)
    \/ \E k \in QsIds, st \in ProcessingStatuses : UpdateStatus(k, st, 0)
    \/ \E k \in QsIds : CancelProcessing(k)

SpecCancel == Init /\ [][NextCancel]_vars

(***************************************************************************)
(* The image recognition router: batch analyses and their cancellation     *)
(***************************************************************************)
NextBatch ==
    \/ \E k \in QsIds, n \in 1..MaxFrames : BatchAnalyzeImages(k, n)
    \/ \E k \in QsIds : CancelAnalysisTask(k)
    \/ \E k \in QsIds, returned \in BOOLEAN : BatchStep(k, returned)

SpecBatch == Init /\ [][NextBatch]_vars

(***************************************************************************)
(* The processing router over QueueService                                 *)
(***************************************************************************)
NextProcessing ==
    \/ \E k \in QsIds, path \in BOOLEAN : CreateTask(k, path)
    \/ \E k \in QsIds : StartProcessing(k)
    \/ \E k \in QsIds : CancelProcessing(k)
    \/ \E k \in QsIds, i \in 1..MaxBg : BgStep(k, i)
    \/ \E k \in QsIds, i \in 1..MaxBg : BgRaise(k, i)
    \/ \E k \in QsIds, func \in {"video", "unknown"}, useCelery \in BOOLEAN :
           EnqueueTask(k, func, useCelery)

SpecProcessing == Init /\ [][NextProcessing]_vars

(***************************************************************************)
(* Properties                                                              *)
(***************************************************************************)
\* The messages of the task engine that are not acknowledged: queued, held
\* by a pool child, or waiting for their ETA.
InFlight ==
    UNION {{broker[q][i] : i \in 1..Len(broker[q])} : q \in Queues}
        \cup {slot[s].m : s \in Slots \ FreeSlots}
        \cup scheduled

MessagesOf(id) == {m \in InFlight : m.id = id}

\* C1, retry counter: a message's retry counter never exceeds max_retries of
\* its task type, and it is the number of times the handler has raised.
RetryCounterBounded ==
    \A m \in InFlight : m.retries <= MaxRetries(m.type) /\ m.retries = raises[m.id]

\* C1, a handler raises: up to max_retries raises the task goes to RETRY and
\* is published again; the raise number max_retries + 1 ends it in FAILURE
\* with no message left, after max_retries + 1 executions when no child
\* was lost.
RaiseStep ==
    \A s \in Slots :
        LET m == slot[s].m
            n == MaxRetries(m.type) + 1
        IN (slot[s].pc \in {"started", "progress"} /\ raises'[m.id] = raises[m.id] + 1) =>
              IF raises'[m.id] >= n
              THEN /\ raises'[m.id] = n
                   /\ backend'[m.id].status = FAILURE
                   /\ \A q \in Queues : \A i \in 1..Len(broker'[q]) :
                          broker'[q][i].id # m.id
                   /\ \A x \in scheduled' : x.id # m.id
                   /\ execs[m.id] <= n + lost[m.id]
                   /\ lost[m.id] = 0 => execs[m.id] = n
              ELSE /\ backend'[m.id].status = RETRY
                   /\ \E i \in 1..Len(broker'[QueueOf(m.type)]) :
                          broker'[QueueOf(m.type)][i] = RetryMsg(m)

\* C1: a task whose handler raises on every attempt is executed exactly
\* max_retries + 1 times and then has status FAILURE; its retry counter
\* never exceeds max_retries and it is not in RETRY once they are exhausted.
C1_RetryBound == []RetryCounterBounded /\ [][RaiseStep]_vars

C1_Witness ==
    \E id \in TaskIds \cup ChainIds :
        /\ backend[id].status = FAILURE
        /\ raises[id] = MaxRetries("video") + 1
        /\ execs[id] = MaxRetries("video") + 1
        /\ lost[id] = 0
        /\ MessagesOf(id) = {}

\* The number of unacknowledged messages of task id: queued, held or timed.
Copies(id) ==
    SumOver([q \in Queues |->
                Cardinality({i \in 1..Len(broker[q]) : broker[q][i].id = id})],
            Queues)
        + Cardinality(Holders(id))
        + Cardinality({m \in scheduled : m.id = id})

\* C2: within a queue the delivered message has the greatest priority value
\* among the queued ones (LOW=3 < NORMAL=6 < HIGH=9 < CRITICAL=10) and is the
\* earliest enqueued among those of its priority.
C2_PriorityThenFifo ==
    [][\A q \in Queues :
          Len(broker'[q]) < Len(broker[q]) =>
              \E i \in 1..Len(broker[q]) :
                  /\ broker'[q] = RemoveAt(broker[q], i)
                  /\ \A j \in 1..Len(broker[q]) :
                        \/ broker[q][j].prio < broker[q][i].prio
                        \/ broker[q][j].prio = broker[q][i].prio /\ i <= j]_vars

\* C3, a child is lost: the message it held is queued again once, no other
\* message is touched, and the stored status of every task is what it was.
LostStep ==
    \A s \in Slots :
        (lost' # lost /\ slot[s].pc # "idle" /\ slot'[s].pc = "idle") =>
            LET m == slot[s].m
            IN /\ lost'[m.id] = lost[m.id] + 1
               /\ broker'[QueueOf(m.type)][1] = m
               /\ Tail(broker'[QueueOf(m.type)]) = broker[QueueOf(m.type)]
               /\ \A q \in Queues \ {QueueOf(m.type)} : broker'[q] = broker[q]
               /\ backend' = backend

\* C3, neither lost nor duplicated: a submitted task has one unacknowledged
\* message until its terminal status is stored, and none afterwards.
OneMessage ==
    \A id \in submitted :
        Copies(id) = IF backend[id].status \in Terminal THEN 0 ELSE 1

C4_OneHolder ==
    /\ \A s1, s2 \in Slots \ FreeSlots : slot[s1].m.id = slot[s2].m.id => s1 = s2
    /\ \A s \in Slots \ FreeSlots : \A q \in Queues : \A i \in 1..Len(broker[q]) :
          broker[q][i].id # slot[s].m.id

C4_Witness ==
    /\ Cardinality(Slots \ FreeSlots) >= 2
    /\ \E s \in Slots \ FreeSlots : lost[slot[s].m.id] > 0

\* The ids on which cancel_task was called in the given phase.
CancelledIn(phase) == {t \in AllIds : <<t, phase>> \in cancelAt}

\* C5: a task cancelled before any worker took it has no handler invocation
\* and no terminal status but REVOKED.
C5_CancelBeforeLease ==
    \A t \in CancelledIn("queued") :
        /\ execs[t] = 0
        /\ backend[t].status \in Terminal => backend[t].status = REVOKED

C7_RevokedOverwrites ==
    \A t \in lateCancel :
        backend[t].status \in Terminal => backend[t].status = REVOKED

\* C7, processing router: once a record is cancelled while a
\* process_video_task coroutine runs on it, no write of the coroutine changes
\* its status.
C7_CancelledKept ==
    [][\A k \in QsIds :
          (qsTasks[k].status = CANCELLED /\ bg'[k] # bg[k] /\ Len(bg'[k]) = Len(bg[k]))
              => qsTasks'[k].status = CANCELLED]_vars

\* The changes of status the claim C8 lists.
ClaimedTransitions ==
    {<<PENDING, STARTED>>,
     <<STARTED, PROGRESS>>, <<STARTED, SUCCESS>>, <<STARTED, FAILURE>>,
     <<STARTED, RETRY>>,
     <<PROGRESS, SUCCESS>>, <<PROGRESS, FAILURE>>, <<PROGRESS, RETRY>>,
     <<RETRY, PENDING>>}
        \cup {<<st, REVOKED>> : st \in TaskStatus \ Terminal}

\* The changes of status the task engine makes: a retried or redelivered
\* attempt writes STARTED over RETRY or PROGRESS, PENDING is never written,
\* and a step after a failed chain step goes from PENDING to FAILURE.
ActualTransitions ==
    {<<PENDING, STARTED>>, <<PENDING, FAILURE>>,
     <<STARTED, PROGRESS>>, <<STARTED, FAILURE>>, <<STARTED, RETRY>>,
     <<PROGRESS, STARTED>>, <<PROGRESS, SUCCESS>>, <<PROGRESS, FAILURE>>,
     <<PROGRESS, RETRY>>,
     <<RETRY, STARTED>>}
        \cup {<<st, REVOKED>> : st \in TaskStatus \ Terminal}

StatusChanges ==
    {<<backend[t].status, backend'[t].status>> :
        t \in {x \in AllIds : backend'[x].status # backend[x].status}}

Stage(id) ==
    IF id[1] = "flow" /\ id[2] >= 3 THEN id[2] - 1 ELSE IF id[1] = "task" THEN 0 ELSE id[2]

Canvas(id) == {x \in ChainIds \cup FlowIds : x[1] = id[1]}

WorkflowIdOf(id) == IF id[1] = "chain" THEN ChainWorkflowId ELSE FlowWorkflowId

\* C9: once a step of a chain has ended in FAILURE no later step is
\* submitted or executed, and when nothing of the chain is left to run the
\* status of the workflow id is FAILURE.
C9_ChainFailure ==
    \A id \in ChainIds \cup FlowIds :
        (backend[id].status = FAILURE /\ execs[id] > 0) =>
            /\ \A x \in Canvas(id) :
                  Stage(x) > Stage(id) => x \notin submitted /\ execs[x] = 0
            /\ InFlight = {} => backend[WorkflowIdOf(id)].status = FAILURE

C11_PayloadMerged ==
    \A s \in Slots \ FreeSlots :
        slot[s].m.id \in ChainIds \cup FlowIds => KeysOk(slot[s].m)

\* C12: the failure of a group member writes nothing to its sibling's record,
\* and once a member has failed and both are terminal get_group_status
\* reports the group failed, not successful, with each member's status.
C12_GroupIndependence ==
    /\ \A t \in GroupIds :
          (backend[t].status = FAILURE /\ execs[t] = 0) => t \notin submitted
    /\ (/\ \A t \in GroupIds : backend[t].status \in Terminal
        /\ \E t \in GroupIds : backend[t].status = FAILURE)
          => LET r == GetGroupStatus(GroupId)
             IN /\ "failed" \in DOMAIN r
                /\ r.failed
                /\ ~r.successful
                /\ \A t \in GroupIds : r.results[t].status = backend[t].status

\* C13: the summary that follows the parallel group of the workflow is
\* submitted only after both members are terminal, at most one copy of it
\* exists, it carries the list of the members' results, and it is submitted
\* once both members are terminal, whether they succeeded or failed.
C13_SummaryAfterGroup ==
    LET members == {<<"flow", 2>>, <<"flow", 3>>}
        body == <<"flow", 4>>
    IN  /\ body \in submitted => \A h \in members : backend[h].status \in Terminal
        /\ Copies(body) <= 1
        /\ \A m \in InFlight : m.id = body => m.payload = "result_list"
        /\ (\A h \in members : backend[h].status \in Terminal)
              => body \in submitted

\* C14: a call of retry_task that sends was made for a task in FAILURE,
\* uses an id not used before, and publishes one message that repeats the
\* failed task: like every submitted task it has a registered type and the
\* one argument that type's handler reads.
C14_RetryResubmits ==
    [][\A p \in retried' \ retried :
          /\ backend[p[1]].status = FAILURE
          /\ p[2] \notin submitted
          /\ \E q \in Queues :
                /\ Len(broker'[q]) = Len(broker[q]) + 1
                /\ SubSeq(broker'[q], 1, Len(broker[q])) = broker[q]
                /\ LET m == broker'[q][Len(broker'[q])]
                   IN  /\ m.id = p[2]
                       /\ m.type \in TaskTypes
                       /\ KeysOk(m)]_vars

C16_OnlyRegisteredQueued ==
    /\ \A m \in InFlight : m.type \in TaskTypes
    /\ \A i \in 1..Len(qsQueue) : qsQueue[i].type \in TaskTypes

\* C17: a call of purge_queue empties the named queue, returns the number of
\* messages that were waiting in it and leaves every other queue as it was.
C17_PurgeNamedQueueOnly ==
    [][Len(purges') > Len(purges) =>
          LET p == purges'[Len(purges')]
          IN  /\ broker'[p.queue] = <<>>
              /\ p.count = Len(broker[p.queue])
              /\ \A x \in Queues \ {p.queue} : broker'[x] = broker[x]]_vars

\* C18: while a queue is paused through pause_queue and not yet resumed, no
\* message leaves it for a pool child and its contents are kept; the other
\* queues are still served.
C18_PausedNotDequeued ==
    [][\A q \in paused \cap paused' :
          purges' = purges => Len(broker'[q]) >= Len(broker[q])]_vars

C20_SuccessKeepsProgress ==
    \A id \in AllIds :
        (execs[id] > 0 /\ backend[id].status = SUCCESS) =>
            LET r == GetTaskStatus(id)
            IN  r.status = SUCCESS /\ r.result = "retval" /\ r.progress = "progress"

\* C21: the figures of generate_task_statistics are those of the moment of
\* the call: the number of tasks submitted, of those in each status, and of
\* the messages waiting in the queues.
C21_StatisticsSnapshot ==
    LET st == GenerateTaskStatistics
        In(S) == Cardinality({id \in submitted \cap AllIds : backend[id].status \in S})
    IN  /\ st.total_tasks = Cardinality(submitted)
        /\ st.pending_tasks = In({PENDING, RETRY})
        /\ st.running_tasks = In({STARTED, PROGRESS})
        /\ st.completed_tasks = In({SUCCESS})
        /\ st.failed_tasks = In({FAILURE})
        /\ st.queue_size = SumOver([x \in Queues |-> Len(broker[x])], Queues)

\* C22: create_task for an id that already has a record leaves the status
\* and the progress of that record as they were.
C22_CreateKeepsRecord ==
    [][(qsLast'.op = "create" /\ qsLast'.found) =>
          /\ qsTasks'[qsLast'.id].status = qsTasks[qsLast'.id].status
          /\ qsTasks'[qsLast'.id].progress = qsTasks[qsLast'.id].progress]_vars

C24_ProgressMonotone ==
    /\ \A i \in 1..Len(pg.log) :
          LET e == pg.log[i]
          IN  /\ 0 <= e.percentage.num
              /\ e.percentage.num <= 100 * e.percentage.den
              /\ IF e.total = 0 THEN e.percentage.num = 0
                 ELSE e.percentage.num * e.total = e.current * 100 * e.percentage.den
    /\ \A i \in 1..(Len(pg.log) - 1) :
          pg.log[i].percentage.num * pg.log[i + 1].percentage.den
              <= pg.log[i + 1].percentage.num * pg.log[i].percentage.den

C24_Witness ==
    /\ pg.type = "image"
    /\ pg.images = 3
    /\ Len(pg.log) = 4

\* C25: once the video step of the workflow has left PENDING, the status
\* read under the video_task_id that submit_complete_video_analysis returned
\* is the status of that step.
C25_VideoTaskIdFollows ==
    backend[<<"flow", 1>>].status # PENDING
        => GetTaskStatus(FlowVideoTaskId).status = backend[<<"flow", 1>>].status

C27_BatchCancelledKept ==
    [][\A k \in QsIds :
          (qsTasks[k].status = CANCELLED /\ batch'[k] # batch[k])
              => qsTasks'[k].status = CANCELLED]_vars

\* C28: cancel_processing answers 404 for an id without a record and 400 for
\* a completed or failed task, and leaves every record and file as it was;
\* for a task in any other status the record becomes cancelled; no other
\* record changes in any of the three cases.
C28_CancelProcessing ==
    [][\A k \in QsIds :
          (qsLast'.op \in CancelAnswers /\ qsLast'.id = k) =>
              /\ \A j \in QsIds \ {k} :
                     qsTasks'[j] = qsTasks[j] /\ qsFiles'[j] = qsFiles[j]
              /\ IF qsTasks[k] = NoRecord
                 THEN /\ qsLast'.op = "cancel_404"
                      /\ qsTasks'[k] = NoRecord
                      /\ qsFiles'[k] = qsFiles[k]
                 ELSE IF qsTasks[k].status \in {COMPLETED, FAILED}
                 THEN /\ qsLast'.op = "cancel_400"
                      /\ qsTasks'[k] = qsTasks[k]
                      /\ qsFiles'[k] = qsFiles[k]
                 ELSE /\ qsLast'.op = "cancel_200"
                      /\ qsTasks'[k].status = CANCELLED
                      /\ qsTasks'[k].task_id = k]_vars

\* a completed task whose cancellation was refused, beside a cancelled one
C28_Witness ==
    /\ qsLast.op = "cancel_400"
    /\ qsTasks[qsLast.id].status = COMPLETED
    /\ \E j \in QsIds : qsTasks[j].status = CANCELLED

\* C29: update_task_status for an id without a record creates no record,
\* writes no file and changes no record; for an id with a record it leaves
\* that record's task_id and its other fields, and every other record and
\* file, as they were.
C29_UpdateFrame ==
    [][\A k \in QsIds :
          (qsLast'.op = "update" /\ qsLast'.id = k) =>
              /\ \A j \in QsIds \ {k} :
                     qsTasks'[j] = qsTasks[j] /\ qsFiles'[j] = qsFiles[j]
              /\ qsLast'.found = (qsTasks[k] # NoRecord)
              /\ IF qsTasks[k] = NoRecord
                 THEN qsTasks'[k] = NoRecord /\ qsFiles'[k] = qsFiles[k]
                 ELSE /\ qsTasks'[k] # NoRecord
                      /\ qsTasks'[k].task_id = qsTasks[k].task_id
                      /\ qsTasks'[k].path = qsTasks[k].path]_vars

\* an update for an id without a record, beside a record that has a file path
C29_Witness ==
    /\ qsLast.op = "update"
    /\ ~qsLast.found
    /\ qsTasks[qsLast.id] = NoRecord
    /\ \E j \in QsIds : qsTasks[j] # NoRecord /\ qsTasks[j].path

\* C30: the task files mirror the task map, so that _load_tasks on the same
\* storage path gives the same ids with the same status and progress; a
\* record leaves the map only by delete_task of its id, a created task is in
\* the map after create_task, and a deleted task has no file to be loaded
\* from.
C30_FilesMirrorTasks ==
    /\ [](\A k \in QsIds :
             /\ (LoadTasks(qsFiles)[k] = NoRecord) = (qsTasks[k] = NoRecord)
             /\ LoadTasks(qsFiles)[k].task_id = qsTasks[k].task_id
             /\ LoadTasks(qsFiles)[k].status = qsTasks[k].status
             /\ LoadTasks(qsFiles)[k].progress = qsTasks[k].progress)
    /\ [][\A k \in QsIds :
             /\ (qsTasks[k] # NoRecord /\ qsTasks'[k] = NoRecord)
                    => (qsLast'.op = "delete" /\ qsLast'.id = k)
             /\ (qsLast'.op = "create" /\ qsLast'.id = k)
                    => qsTasks'[k] # NoRecord
             /\ (qsLast'.op = "delete" /\ qsLast'.id = k)
                    => (qsTasks'[k] = NoRecord /\ LoadTasks(qsFiles')[k] = NoRecord)]_vars

\* a fresh QueueService has loaded a completed task, and another id has no
\* record
C30_Witness ==
    /\ qsLast.op = "load"
    /\ \E k \in QsIds : qsTasks[k].status = COMPLETED /\ qsTasks[k].progress = 10
    /\ \E j \in QsIds : qsTasks[j] = NoRecord

====
